---- MODULE Spec2Model ----
(***************************************************************************)
(* Model of src/app.py: the Google Autocomplete (SerpAPI) Streamlit app.   *)
(*                                                                         *)
(* A Python str is a sequence of one-character strings, so that strip(),   *)
(* splitlines() and the f-string concatenations are computed, not assumed. *)
(* An optional value (None / NaN in the DataFrame) is the empty sequence,  *)
(* a present value v is <<v>>.                                             *)
(* Durations are in milliseconds.                                          *)
(***************************************************************************)
EXTENDS Integers, Sequences, FiniteSets, TLC

VARIABLES
    SERPAPI_KEY,      \* the API key read at start-up ("" when none was found)
    rpm,              \* slider "Max requests per minute"
    max_retries,      \* slider "Max retries"
    backoff_base,     \* slider "Backoff (seconds)"
    use_az,           \* checkbox "A-Z expansion"
    prefixes,         \* parsed prefix list ([] when "Use prefix/suffix lists" is off)
    suffixes,         \* parsed suffix list
    unique_only,      \* checkbox "De-duplicate suggestions per seed"
    keep_seed_row,    \* checkbox "Include base seed queries in output"
    seeds,            \* the seed batch, parsed from the text area
    pc,               \* position of the script
    seed_i,           \* index of the current seed in seeds (for seed in seeds)
    queries,          \* the current seed's query list
    q_i,              \* index of the current query in queries (for q in queries)
    tries,            \* with_retry's local counter
    log,              \* the current with_retry call's invocations of fn and sleeps, in order
    last_resp,        \* the HTTP outcome of the latest invocation
    outcome,          \* how the latest with_retry call ended
    gap,              \* <<ms slept since the latest HTTP request>>, <<>> before the first
    req_gap,          \* <<ms slept between the latest HTTP request and the one before>>
    rows,             \* the collected rows
    fetched,          \* the <<seed, query>> pairs handed to with_retry, in order
    inserted,         \* how many times queries.insert(0, seed) ran
    done,             \* progress counter
    total_queries,    \* computed before the loop
    df,               \* the result table
    summary           \* the summary table

vars == <<SERPAPI_KEY, rpm, max_retries, backoff_base, use_az, prefixes, suffixes,
          unique_only, keep_seed_row, seeds, pc, seed_i, queries, q_i, tries, log,
          last_resp, outcome, gap, req_gap, rows, fetched, inserted, done,
          total_queries, df, summary>>

settings == <<SERPAPI_KEY, rpm, max_retries, backoff_base, use_az, prefixes, suffixes,
              unique_only, keep_seed_row, seeds>>

None == <<>>
Some(v) == <<v>>

(***************************************************************************)
(* Strings                                                                 *)
(***************************************************************************)
ascii_lowercase ==
    <<"a", "b", "c", "d", "e", "f", "g", "h", "i", "j", "k", "l", "m",
      "n", "o", "p", "q", "r", "s", "t", "u", "v", "w", "x", "y", "z">>

Whitespace == {" ", "\t", "\n"}

RECURSIVE lstrip(_)
lstrip(s) ==
    IF s # <<>> /\ Head(s) \in Whitespace THEN lstrip(Tail(s)) ELSE s

RECURSIVE rstrip(_)
rstrip(s) ==
    IF s # <<>> /\ s[Len(s)] \in Whitespace
    THEN rstrip(SubSeq(s, 1, Len(s) - 1))
    ELSE s

\* str.strip()
strip(s) == rstrip(lstrip(s))

\* str.splitlines(): split at each newline, no empty last line
RECURSIVE SplitFrom(_, _, _)
SplitFrom(text, i, cur) ==
    IF i > Len(text)
    THEN IF cur = <<>> THEN <<>> ELSE <<cur>>
    ELSE IF text[i] = "\n"
         THEN <<cur>> \o SplitFrom(text, i + 1, <<>>)
         ELSE SplitFrom(text, i + 1, Append(cur, text[i]))

splitlines(text) == SplitFrom(text, 1, <<>>)

\* [x.strip() for x in xs if x.strip()]
RECURSIVE StripNonBlank(_)
StripNonBlank(xs) ==
    IF xs = <<>> THEN <<>>
    ELSE IF strip(Head(xs)) # <<>>
         THEN <<strip(Head(xs))>> \o StripNonBlank(Tail(xs))
         ELSE StripNonBlank(Tail(xs))

Range(xs) == {xs[i] : i \in 1..Len(xs)}

\* list(dict.fromkeys(xs)): first occurrences, in order
RECURSIVE FromKeys(_, _)
FromKeys(xs, seen) ==
    IF xs = <<>> THEN <<>>
    ELSE IF Head(xs) \in seen
         THEN FromKeys(Tail(xs), seen)
         ELSE <<Head(xs)>> \o FromKeys(Tail(xs), seen \cup {Head(xs)})

dict_fromkeys(xs) == FromKeys(xs, {})

\* [p.strip() for p in text_area.splitlines() if p.strip()]
ParseList(text) == StripNonBlank(splitlines(text))

\* seeds = dedupe([s.strip() for s in seeds_raw.splitlines() if s.strip()])
ParseSeeds(seeds_raw) == dict_fromkeys(ParseList(seeds_raw))

(***************************************************************************)
(* expand_queries                                                          *)
(***************************************************************************)
AzVariants(seed) ==
    [k \in 1..Len(ascii_lowercase) |-> seed \o <<" ">> \o <<ascii_lowercase[k]>>]

PrefixVariants(seed, ps) == [k \in 1..Len(ps) |-> ps[k] \o <<" ">> \o seed]

SuffixVariants(seed, ss) == [k \in 1..Len(ss) |-> seed \o <<" ">> \o ss[k]]

\* expand_queries returning the stripped variants without dict.fromkeys
expand_queries_keeps_duplicates(seed, az, ps, ss) ==
    LET v0 == <<seed>>
        v1 == IF az THEN v0 \o AzVariants(seed) ELSE v0
        v2 == IF ps # <<>> THEN v1 \o PrefixVariants(seed, ps) ELSE v1
        v3 == IF ss # <<>> THEN v2 \o SuffixVariants(seed, ss) ELSE v2
    IN  StripNonBlank(v3)

\* expand_queries starting from variants = [] instead of [seed]
expand_queries_without_seed(seed, az, ps, ss) ==
    LET v0 == <<>>
        v1 == IF az THEN v0 \o AzVariants(seed) ELSE v0
        v2 == IF ps # <<>> THEN v1 \o PrefixVariants(seed, ps) ELSE v1
        v3 == IF ss # <<>> THEN v2 \o SuffixVariants(seed, ss) ELSE v2
    IN  dict_fromkeys(StripNonBlank(v3))

expand_queries(seed, az, ps, ss) ==
    LET v0 == <<seed>>
        v1 == IF az THEN v0 \o AzVariants(seed) ELSE v0
        v2 == IF ps # <<>> THEN v1 \o PrefixVariants(seed, ps) ELSE v1
        v3 == IF ss # <<>> THEN v2 \o SuffixVariants(seed, ss) ELSE v2
    IN  dict_fromkeys(StripNonBlank(v3))

(***************************************************************************)
(* serpapi_autocomplete and with_retry                                     *)
(*                                                                         *)
(* An HTTP outcome is a record                                             *)
(*   kind   : "transport" (requests.get raised) or "http" (a response)     *)
(*   msg    : str(e) of the transport exception                            *)
(*   status : the response's status code                                   *)
(*   detail : the error/message field of an error response's JSON          *)
(*   suggestions : None when the JSON has no "suggestions" key, else       *)
(*                 <<the list>>; a list entry is None when it has no       *)
(*                 "value" key, else <<its value>>                         *)
(***************************************************************************)
Transport(m) ==
    [kind |-> "transport", msg |-> m, status |-> 0, detail |-> "", suggestions |-> None]

HttpError(code, d) ==
    [kind |-> "http", msg |-> "", status |-> code, detail |-> d, suggestions |-> None]

HttpOk(sugg) ==
    [kind |-> "http", msg |-> "", status |-> 200, detail |-> "", suggestions |-> sugg]

\* r.raise_for_status(): HTTPError for 4xx and 5xx
RaisesForStatus(resp) == resp.status >= 400 /\ resp.status < 600

\* for i, s in enumerate(suggestions, start=1): val = s.get("value"); if val: ...
RECURSIVE Enumerate(_, _)
Enumerate(entries, i) ==
    IF entries = <<>> THEN <<>>
    ELSE LET val == Head(entries)
             rest == Enumerate(Tail(entries), i + 1)
         IN  IF val # None /\ val[1] # <<>>
             THEN <<[pos |-> i, text |-> val[1]]>> \o rest
             ELSE rest

\* serpapi_autocomplete with enumerate(suggestions) counting from 0
serpapi_autocomplete_from_zero(resp) ==
    IF resp.kind = "transport"
    THEN [raised |-> TRUE, error |-> resp.msg, values |-> <<>>]
    ELSE IF RaisesForStatus(resp)
    THEN [raised |-> TRUE,
          error |-> "SerpAPI error " \o ToString(resp.status) \o ": " \o resp.detail,
          values |-> <<>>]
    ELSE LET suggestions == IF resp.suggestions = None THEN <<>> ELSE resp.suggestions[1]
         IN  [raised |-> FALSE, error |-> "", values |-> Enumerate(suggestions, 0)]

\* One invocation: [raised, error, values]
serpapi_autocomplete(resp) ==
    IF resp.kind = "transport"
    THEN [raised |-> TRUE, error |-> resp.msg, values |-> <<>>]
    ELSE IF RaisesForStatus(resp)
    THEN [raised |-> TRUE,
          error |-> "SerpAPI error " \o ToString(resp.status) \o ": " \o resp.detail,
          values |-> <<>>]
    ELSE LET suggestions == IF resp.suggestions = None THEN <<>> ELSE resp.suggestions[1]
         IN  [raised |-> FALSE, error |-> "", values |-> Enumerate(suggestions, 1)]

\* a backoff that does not grow with the attempt number
BackoffSleepFlat(base, t) == base * 1000

\* time.sleep(backoff_base * tries), in ms
BackoffSleep(base, t) == base * t * 1000

\* delay = 60.0 / float(rpm), in ms (exact for the rpm values drawn in Init)
Delay(r) == (60 * 1000) \div r

\* with_retry raising at tries >= max_retries
with_retry_gives_up_early(t, resp, maxr, base) ==
    LET r == serpapi_autocomplete(resp)
    IN  IF ~r.raised
        THEN [status |-> "returned", tries |-> t, sleep |-> None,
              values |-> r.values, error |-> ""]
        ELSE IF t + 1 >= maxr
        THEN [status |-> "raised", tries |-> t + 1, sleep |-> None,
              values |-> <<>>, error |-> r.error]
        ELSE [status |-> "retry", tries |-> t + 1,
              sleep |-> Some(base * (t + 1) * 1000),
              values |-> <<>>, error |-> ""]

\* with_retry treating an empty result as a failure
with_retry_retries_empty(t, resp, maxr, base) ==
    LET r == serpapi_autocomplete(resp)
    IN  IF ~r.raised /\ r.values # <<>>
        THEN [status |-> "returned", tries |-> t, sleep |-> None,
              values |-> r.values, error |-> ""]
        ELSE IF t + 1 > maxr
        THEN [status |-> "raised", tries |-> t + 1, sleep |-> None,
              values |-> <<>>, error |-> "no suggestions"]
        ELSE [status |-> "retry", tries |-> t + 1,
              sleep |-> Some(base * (t + 1) * 1000),
              values |-> <<>>, error |-> ""]

\* One turn of with_retry's while loop, entered with tries = t:
\*   status "returned" (values), "raised" (error) or "retry" (after sleeping `sleep`)
with_retry(t, resp, maxr, base) ==
    LET r == serpapi_autocomplete(resp)
    IN  IF ~r.raised
        THEN [status |-> "returned", tries |-> t, sleep |-> None,
              values |-> r.values, error |-> ""]
        ELSE IF t + 1 > maxr
        THEN [status |-> "raised", tries |-> t + 1, sleep |-> None,
              values |-> <<>>, error |-> r.error]
        ELSE [status |-> "retry", tries |-> t + 1,
              sleep |-> Some(BackoffSleep(base, t + 1)),
              values |-> <<>>, error |-> ""]

(***************************************************************************)
(* Rows of the result table                                                *)
(***************************************************************************)
Row(seed, q, pos, sugg, err) ==
    [seed |-> seed, query_sent |-> q, position |-> pos, suggestion |-> sugg,
     error |-> err]

\* rows appended for one query whose with_retry returned `values`
RECURSIVE HitRows(_, _, _)
HitRows(seed, q, values) ==
    IF values = <<>> THEN <<>>
    ELSE <<Row(seed, q, Some(Head(values).pos), Some(Head(values).text), None)>>
         \o HitRows(seed, q, Tail(values))

SuccessRows(seed, q, values) ==
    IF values = <<>>
    THEN <<Row(seed, q, None, None, None)>>
    ELSE HitRows(seed, q, values)

ErrorRow(seed, q, e) == Row(seed, q, None, None, Some(e))

(***************************************************************************)
(* De-duplication and summary (pandas)                                     *)
(***************************************************************************)
CodePoints == <<"\t", "\n", " ">> \o ascii_lowercase

Ord(c) == CHOOSE k \in 1..Len(CodePoints) : CodePoints[k] = c

\* Python's str <
RECURSIVE StrLess(_, _)
StrLess(a, b) ==
    IF b = <<>> THEN FALSE
    ELSE IF a = <<>> THEN TRUE
    ELSE IF Head(a) = Head(b) THEN StrLess(Tail(a), Tail(b))
    ELSE Ord(Head(a)) < Ord(Head(b))

\* order of one column, na_position="last"
OptStrLess(a, b) == a # None /\ (b = None \/ StrLess(a[1], b[1]))
OptIntLess(a, b) == a # None /\ (b = None \/ a[1] < b[1])

\* the key order of sort_values(["seed", "suggestion", "position"], na_position="last")
RowLess(r1, r2) ==
    \/ StrLess(r1.seed, r2.seed)
    \/ /\ r1.seed = r2.seed
       /\ \/ OptStrLess(r1.suggestion, r2.suggestion)
          \/ /\ r1.suggestion = r2.suggestion
             /\ OptIntLess(r1.position, r2.position)

\* insert r after every row that is not greater (the sort is stable)
RECURSIVE InsertSorted(_, _)
InsertSorted(sorted, r) ==
    IF sorted = <<>> THEN <<r>>
    ELSE IF RowLess(r, Head(sorted))
         THEN <<r>> \o sorted
         ELSE <<Head(sorted)>> \o InsertSorted(Tail(sorted), r)

RECURSIVE SortFrom(_, _)
SortFrom(table, acc) ==
    IF table = <<>> THEN acc
    ELSE SortFrom(Tail(table), InsertSorted(acc, Head(table)))

\* drop_duplicates applied to the table in collection order
sort_values_skipped(table) == table

sort_values(table) == SortFrom(table, <<>>)

\* drop_duplicates(subset=["seed", "suggestion"], keep="first"): missing values
\* compare equal to one another
DupKey(r) == <<r.seed, r.suggestion>>

RECURSIVE DropFrom(_, _)
DropFrom(table, seen) ==
    IF table = <<>> THEN <<>>
    ELSE IF DupKey(Head(table)) \in seen
         THEN DropFrom(Tail(table), seen)
         ELSE <<Head(table)>> \o DropFrom(Tail(table), seen \cup {DupKey(Head(table))})

drop_duplicates(table) == DropFrom(table, {})

\* df = pd.DataFrame(rows); if unique_only and not df.empty: sort, drop duplicates
Deduplicate(table, unique) ==
    IF unique /\ table # <<>>
    THEN drop_duplicates(sort_values(table))
    ELSE table

\* the summary with count() in place of nunique()
SummaryGroupsCount(table) ==
    LET kept == {i \in 1..Len(table) : table[i].suggestion # None}
        keys == {table[i].seed : i \in kept}
    IN  {[seed |-> s,
          unique_suggestions |-> Cardinality({i \in kept : table[i].seed = s})]
         : s \in keys}

\* df.dropna(subset=["suggestion"]).groupby("seed")["suggestion"].nunique()
SummaryGroups(table) ==
    LET kept == {table[i] : i \in {j \in 1..Len(table) : table[j].suggestion # None}}
        keys == {r.seed : r \in kept}
    IN  {[seed |-> s,
          unique_suggestions |->
              Cardinality({r.suggestion : r \in {x \in kept : x.seed = s}})]
         : s \in keys}

\* .sort_values("unique_suggestions", ascending=False): every order of the groups
\* with non-increasing counts (the default sort does not fix the order of ties)
SummaryTables(table) ==
    LET g == SummaryGroups(table)
        n == Cardinality(g)
    IN  {t \in [1..n -> g] :
            /\ \A i, j \in 1..n : i # j => t[i] # t[j]
            /\ \A i \in 1..n : \A j \in 1..n :
                   i < j => t[i].unique_suggestions >= t[j].unique_suggestions}

(***************************************************************************)
(* Inputs                                                                  *)
(***************************************************************************)
\* what the user typed in "Enter seeds"
SeedTexts ==
    { <<>>,
      <<"a">>,
      <<" ", "b", " ", "\n", "a", "\n", "\n", "b">> }

\* "Use prefix/suffix lists" and the two text areas: <<on, prefixes text, suffixes text>>
PrefixSuffixInputs ==
    { <<FALSE, <<"c">>, <<"d">> >>,
      <<TRUE, <<"c", "\n">>, <<>> >>,
      <<TRUE, <<" ", "\n">>, <<" ", "d", " ">> >> }

\* the sliders of a batch run: <<rpm, max_retries, backoff_base>>
SliderInputs == { <<10, 2, 1>>, <<120, 0, 10>> }

X == <<"x">>
Y == <<"y">>

Failures == { Transport("timed out"), HttpError(429, "rate limited") }

Empties == { HttpOk(None), HttpOk(Some(<<>>)), HttpOk(Some(<<None, Some(<<>>)>>)) }

Hits ==
    { HttpOk(Some(<<Some(X)>>)),
      HttpOk(Some(<<None, Some(Y), Some(X)>>)),
      HttpOk(Some(<<Some(X), Some(X)>>)) }

Responses == Failures \cup Empties \cup Hits

\* Only the first MaxLive queries of a batch run draw their outcomes from Responses;
\* the later ones get an empty list.
MaxLive == 2

Quiet == HttpOk(Some(<<>>))

Pending == [status |-> "pending", values |-> <<>>, error |-> ""]

Call == [ev |-> "call", ms |-> 0]
Sleep(ms) == [ev |-> "sleep", ms |-> ms]

Calls(l) == Cardinality({i \in 1..Len(l) : l[i].ev = "call"})
Sleeps(l) == Cardinality({i \in 1..Len(l) : l[i].ev = "sleep"})

(***************************************************************************)
(* The script                                                              *)
(***************************************************************************)
Rest ==
    /\ seed_i = 0 /\ queries = <<>> /\ q_i = 0
    /\ tries = 0 /\ log = <<>> /\ last_resp = Quiet /\ outcome = Pending
    /\ gap = None /\ req_gap = None
    /\ rows = <<>> /\ fetched = <<>> /\ inserted = 0 /\ done = 0 /\ total_queries = 0
    /\ df = <<>> /\ summary = <<>>

Init ==
    /\ SERPAPI_KEY \in {"", "key"}
    /\ \E sl \in SliderInputs : rpm = sl[1] /\ max_retries = sl[2] /\ backoff_base = sl[3]
    /\ use_az \in BOOLEAN
    /\ \E ps \in PrefixSuffixInputs :
          /\ prefixes = IF ps[1] THEN ParseList(ps[2]) ELSE <<>>
          /\ suffixes = IF ps[1] THEN ParseList(ps[3]) ELSE <<>>
    /\ unique_only \in BOOLEAN
    /\ keep_seed_row \in BOOLEAN
    /\ \E t \in SeedTexts : seeds = ParseSeeds(t)
    /\ pc = "ready"
    /\ Rest

RECURSIVE SumLens(_)
SumLens(xs) == IF xs = <<>> THEN 0 ELSE Len(Head(xs)) + SumLens(Tail(xs))

\* total_queries = sum(len(expand_queries(seed)) for seed in seeds)
TotalQueries ==
    SumLens([i \in 1..Len(seeds) |-> expand_queries(seeds[i], use_az, prefixes, suffixes)])

\* if keep_seed_row and seed not in queries
NeedsInsert(seed, qs) == keep_seed_row /\ seed \notin Range(qs)

\* queries = expand_queries(seed); if ...: queries.insert(0, seed)
BuildQueries(seed) ==
    LET qs == expand_queries(seed, use_az, prefixes, suffixes)
    IN  IF NeedsInsert(seed, qs) THEN <<seed>> \o qs ELSE qs

\* the seeds at indexes j..k for which queries.insert(0, seed) runs
Inserts(j, k) ==
    Cardinality({i \in j..k :
        NeedsInsert(seeds[i], expand_queries(seeds[i], use_az, prefixes, suffixes))})

\* for seed in seeds, from index j on: the first seed whose query list is not empty
\* (the inner loop does nothing for an empty list), Len(seeds) + 1 when there is none
RECURSIVE SeedFrom(_)
SeedFrom(j) ==
    IF j > Len(seeds) THEN j
    ELSE IF BuildQueries(seeds[j]) # <<>> THEN j ELSE SeedFrom(j + 1)

\* the script reaches "for q in queries" for seed j, query k: with_retry starts
EnterQuery(j, qs, k) ==
    /\ pc' = "fetch"
    /\ seed_i' = j
    /\ queries' = qs
    /\ q_i' = k
    /\ tries' = 0
    /\ log' = <<>>
    /\ outcome' = Pending
    /\ last_resp' = Quiet
    /\ fetched' = Append(fetched, <<seeds[j], qs[k]>>)

\* the script goes on from seed index j: its first query, or the end of the loops
EnterSeed(j) ==
    LET n == SeedFrom(j)
    IN  /\ inserted' = inserted + Inserts(j, IF n > Len(seeds) THEN Len(seeds) ELSE n)
        /\ IF n <= Len(seeds)
           THEN EnterQuery(n, BuildQueries(seeds[n]), 1)
           ELSE /\ pc' = "aggregate"
                /\ UNCHANGED <<seed_i, queries, q_i, tries, log, outcome, last_resp,
                               fetched>>

\* if run: the two pre-flight checks, the set-up, and the way to the first request
RunBatch ==
    /\ pc = "ready"
    /\ IF SERPAPI_KEY = "" \/ seeds = <<>>
       THEN /\ pc' = "stopped"
            /\ UNCHANGED <<seed_i, queries, q_i, tries, log, outcome, last_resp, fetched,
                           inserted, total_queries>>
       ELSE /\ total_queries' = TotalQueries
            /\ EnterSeed(1)
    /\ UNCHANGED <<settings, gap, req_gap, rows, done, df, summary>>

\* what one turn of with_retry does to the retry state and the clock
RetryTurn(resp, r) ==
    /\ last_resp' = resp
    /\ tries' = r.tries
    /\ log' = IF r.sleep = None
              THEN Append(log, Call)
              ELSE log \o <<Call, Sleep(r.sleep[1])>>
    /\ req_gap' = gap
    /\ gap' = IF r.sleep = None THEN Some(0) ELSE r.sleep

\* one HTTP request of the batch loop's with_retry call, and what follows it:
\* a backoff sleep, or the rows appended for the query
Attempt(resp) ==
    /\ pc = "fetch"
    /\ LET r == with_retry(tries, resp, max_retries, backoff_base)
           seed == seeds[seed_i]
           q == queries[q_i]
       IN  /\ RetryTurn(resp, r)
           /\ CASE r.status = "retry" ->
                     /\ pc' = "fetch"
                     /\ UNCHANGED <<outcome, rows>>
                [] r.status = "returned" ->
                     /\ pc' = "pace"
                     /\ outcome' = [status |-> "returned", values |-> r.values, error |-> ""]
                     /\ rows' = rows \o SuccessRows(seed, q, r.values)
                [] r.status = "raised" ->
                     /\ pc' = "pace"
                     /\ outcome' = [status |-> "raised", values |-> <<>>, error |-> r.error]
                     /\ rows' = Append(rows, ErrorRow(seed, q, r.error))
    /\ UNCHANGED <<settings, seed_i, queries, q_i, fetched, inserted, done, total_queries,
                   df, summary>>

Fetch ==
    IF done < MaxLive
    THEN \E resp \in Responses : Attempt(resp)
    ELSE Attempt(Quiet)

\* done += 1; time.sleep(delay); then the next query, the next seed or the end
Pace ==
    /\ pc = "pace"
    /\ done' = done + 1
    /\ gap' = Some(gap[1] + Delay(rpm))
    /\ IF q_i < Len(queries)
       THEN /\ EnterQuery(seed_i, queries, q_i + 1)
            /\ UNCHANGED inserted
       ELSE EnterSeed(seed_i + 1)
    /\ UNCHANGED <<settings, req_gap, rows, total_queries, df, summary>>

\* after the loop: the DataFrame, the de-duplication and the summary
Aggregate ==
    /\ pc = "aggregate"
    /\ df' = Deduplicate(rows, unique_only)
    /\ IF df' = <<>>
       THEN summary' = <<>>
       ELSE summary' \in SummaryTables(df')
    /\ pc' = "done"
    /\ UNCHANGED <<settings, seed_i, queries, q_i, tries, log, last_resp, outcome, gap,
                   req_gap, rows, fetched, inserted, done, total_queries>>

Next == RunBatch \/ Fetch \/ Pace \/ Aggregate

Spec == Init /\ [][Next]_vars

(***************************************************************************)
(* Properties of the batch run                                             *)
(***************************************************************************)
Expand(seed) == expand_queries(seed, use_az, prefixes, suffixes)

\* every variant of every seed, in seed order then variant order
RECURSIVE VariantsFrom(_)
VariantsFrom(j) ==
    IF j > Len(seeds) THEN <<>>
    ELSE LET e == Expand(seeds[j])
         IN  [k \in 1..Len(e) |-> <<seeds[j], e[k]>>] \o VariantsFrom(j + 1)

AllVariants == VariantsFrom(1)

\* the rows appended so far for the query being processed
RowsOfQuery ==
    {i \in 1..Len(rows) :
        rows[i].seed = seeds[seed_i] /\ rows[i].query_sent = queries[q_i]}

LastRow == rows[Len(rows)]

AllFailed(l) == \A i \in 1..Len(l) : l[i].ev = "call" => i < Len(l) /\ l[i + 1].ev = "sleep"

\* C2: a query whose fetch fails on every invocation is invoked max_retries + 1
\* times and leaves exactly one row with null position, null suggestion and a
\* non-empty error; the run goes on, and at its end every variant of every seed has
\* been processed exactly once, in seed order then variant order.
C2_ExhaustedFailureIsOneRowAndRunGoesOn ==
    /\ (pc = "pace" /\ outcome.status = "raised") =>
          /\ Calls(log) = max_retries + 1
          /\ Cardinality(RowsOfQuery) = 1
          /\ Len(rows) \in RowsOfQuery
          /\ LastRow.position = None
          /\ LastRow.suggestion = None
          /\ LastRow.error # None
          /\ LastRow.error[1] # ""
    /\ (pc = "pace" /\ Calls(log) = max_retries + 1 /\ serpapi_autocomplete(last_resp).raised)
          => outcome.status = "raised"
    /\ pc \in {"fetch", "pace"} =>
          /\ Len(fetched) = done + 1
          /\ fetched[Len(fetched)] = <<seeds[seed_i], queries[q_i]>>
    /\ pc \in {"aggregate", "done"} => fetched = AllVariants /\ done = Len(AllVariants)

C2_Witness ==
    /\ pc = "done"
    /\ max_retries = 2
    /\ Len(rows) >= 3
    /\ rows[1].error # None
    /\ rows[2].suggestion # None
    /\ rows[Len(rows)].seed # rows[1].seed

\* C3: any two successive HTTP requests of a batch run are separated by at least
\* delay = 60 / rpm seconds of sleep.
C3_RequestsAreDelayApart == req_gap # None => req_gap[1] >= Delay(rpm)

\* C4: with de-duplication on, every collected row with a null suggestion is still
\* in the result table.
C4_NullRowsSurviveDedup ==
    (pc = "done" /\ unique_only) =>
        \A i \in 1..Len(rows) : rows[i].suggestion = None => rows[i] \in Range(df)

PairsOf(table) ==
    {<<table[i].seed, table[i].suggestion>> :
        i \in {j \in 1..Len(table) : table[j].suggestion # None}}

IndexesOf(table, pair) ==
    {i \in 1..Len(table) : table[i].seed = pair[1] /\ table[i].suggestion = pair[2]}

\* C5: with de-duplication on, each (seed, non-null suggestion) pair of the
\* collected table is in exactly one row of the result, the one with the smallest
\* position collected for the pair; with it off the result is the collected table.
C5_DedupKeepsLowestPosition ==
    pc = "done" =>
        IF unique_only
        THEN /\ PairsOf(df) = PairsOf(rows)
             /\ \A pair \in PairsOf(rows) :
                   /\ Cardinality(IndexesOf(df, pair)) = 1
                   /\ \A i \in IndexesOf(df, pair) : \A j \in IndexesOf(rows, pair) :
                          /\ df[i].position # None
                          /\ df[i].position[1] <= rows[j].position[1]
                          /\ df[i] \in Range(rows)
        ELSE df = rows

C5_Witness ==
    /\ pc = "done"
    /\ unique_only
    /\ \E i, j \in 1..Len(rows) :
          /\ i < j
          /\ rows[i].seed = rows[j].seed
          /\ rows[i].suggestion # None
          /\ rows[i].suggestion = rows[j].suggestion
          /\ rows[i].query_sent # rows[j].query_sent
          /\ rows[i].position[1] > rows[j].position[1]

\* the claim's "holding only entries without a text value"
ZeroSuggestions(resp) ==
    /\ resp.kind = "http"
    /\ resp.status = 200
    /\ \/ resp.suggestions = None
       \/ \A i \in 1..Len(resp.suggestions[1]) :
             resp.suggestions[1][i] = None \/ resp.suggestions[1][i] = Some(<<>>)

\* C7: a successful response with zero suggestions is not retried (no invocation
\* and no backoff sleep follows it: the only retries are those of the failures
\* before it) and leaves exactly one row with null position, null suggestion and
\* no error.
C7_ZeroSuggestionsIsNoError ==
    /\ (pc = "fetch" /\ log # <<>>) => ~ZeroSuggestions(last_resp)
    /\ (pc = "pace" /\ ZeroSuggestions(last_resp)) =>
          /\ outcome.status = "returned"
          /\ log[Len(log)] = Call
          /\ Calls(log) = tries + 1
          /\ Sleeps(log) = tries
          /\ AllFailed(SubSeq(log, 1, Len(log) - 1))
          /\ Cardinality(RowsOfQuery) = 1
          /\ LastRow = Row(seeds[seed_i], queries[q_i], None, None, None)

C7_Witness ==
    /\ pc = "pace"
    /\ last_resp = HttpOk(Some(<<None, Some(<<>>)>>))
    /\ log = <<Call>>
    /\ Len(rows) = 2

WellFormed(r) ==
    /\ (r.position # None) <=> (r.suggestion # None)
    /\ r.position # None => r.position[1] \in Nat \ {0}
    /\ r.seed \in Range(seeds)

\* C8: in every state of a batch run every row, collected or in the result table,
\* has a positive integer position exactly when its suggestion is non-null, and a
\* seed of the batch.
C8_RowsWellFormed ==
    /\ \A i \in 1..Len(rows) : WellFormed(rows[i])
    /\ \A i \in 1..Len(df) : WellFormed(df[i])

C8_Witness ==
    /\ pc = "done"
    /\ unique_only
    /\ \E i, j \in 1..Len(df) :
          /\ df[i].suggestion = None
          /\ df[j].position # None /\ df[j].position[1] = 3

DistinctSuggestions(seed) ==
    {rows[i].suggestion :
        i \in {j \in 1..Len(rows) : rows[j].seed = seed /\ rows[j].suggestion # None}}

SummaryOf(seed) == {i \in 1..Len(summary) : summary[i].seed = seed}

NonIncreasing ==
    \A i, j \in 1..Len(summary) :
        i < j => summary[i].unique_suggestions >= summary[j].unique_suggestions

\* C9 as stated: for each seed of the batch the summary reports the number of
\* distinct non-null suggestions among the seed's rows, in non-increasing order.
C9_EverySeedIsSummarised ==
    (pc = "done" /\ df # <<>>) =>
        /\ \A k \in 1..Len(seeds) :
              /\ Cardinality(SummaryOf(seeds[k])) = 1
              /\ \A i \in SummaryOf(seeds[k]) :
                    summary[i].unique_suggestions =
                        Cardinality(DistinctSuggestions(seeds[k]))
        /\ NonIncreasing

\* C9 amended: the summary has one entry for each seed that has at least one
\* non-null suggestion, carrying the number of distinct non-null suggestions among
\* the seed's collected rows (de-duplication on or off), and no entry for a seed
\* that has none; the entries are in non-increasing order of the count.
C9_SeedsWithSuggestionsAreSummarised ==
    (pc = "done" /\ df # <<>>) =>
        /\ \A k \in 1..Len(seeds) :
              IF DistinctSuggestions(seeds[k]) = {}
              THEN SummaryOf(seeds[k]) = {}
              ELSE /\ Cardinality(SummaryOf(seeds[k])) = 1
                   /\ \A i \in SummaryOf(seeds[k]) :
                         summary[i].unique_suggestions =
                             Cardinality(DistinctSuggestions(seeds[k]))
        /\ \A i \in 1..Len(summary) : summary[i].seed \in Range(seeds)
        /\ NonIncreasing

C9_Witness ==
    /\ pc = "done"
    /\ ~unique_only
    /\ Len(summary) = 2
    /\ summary[1].unique_suggestions = 2
    /\ summary[2].unique_suggestions = 1
    /\ \E i, j \in 1..Len(rows) :
          i # j /\ rows[i].seed = summary[2].seed /\ rows[j].seed = summary[2].seed
          /\ rows[i].suggestion # None /\ rows[i].suggestion = rows[j].suggestion

RetrySlider == 0..5
BackoffSlider == 1..10

InitPlayground ==
    /\ SERPAPI_KEY = "key"
    /\ rpm = 60
    /\ max_retries \in RetrySlider
    /\ backoff_base \in BackoffSlider
    /\ use_az = FALSE /\ prefixes = <<>> /\ suffixes = <<>>
    /\ unique_only = TRUE /\ keep_seed_row = TRUE
    /\ seeds = <<>>
    /\ pc = "playground"
    /\ Rest

\* if st.button("Test query"): one HTTP request of with_retry(serpapi_autocomplete, q, ...)
\* and what follows it: a backoff sleep, st.write of the result or st.error
TestQuery(resp) ==
    /\ pc = "playground"
    /\ LET r == with_retry(tries, resp, max_retries, backoff_base)
       IN  /\ RetryTurn(resp, r)
           /\ CASE r.status = "retry" ->
                     /\ pc' = "playground"
                     /\ UNCHANGED outcome
                [] r.status = "returned" ->
                     /\ pc' = "played"
                     /\ outcome' = [status |-> "returned", values |-> r.values, error |-> ""]
                [] r.status = "raised" ->
                     /\ pc' = "played"
                     /\ outcome' = [status |-> "raised", values |-> <<>>, error |-> r.error]
    /\ UNCHANGED <<settings, seed_i, queries, q_i, rows, fetched, inserted, done,
                   total_queries, df, summary>>

NextPlayground == \E resp \in Responses : TestQuery(resp)

SpecPlayground == InitPlayground /\ [][NextPlayground]_vars

\* C1: when the fetch fails on its first n invocations and succeeds on the next one
\* (n = max_retries being the longest such run), with_retry returns the successful
\* result after exactly n + 1 invocations and n sleeps, the k-th sleep lasting
\* backoff_base * k seconds between invocation k and invocation k + 1.
C1_RetryThenSuccess ==
    (pc = "played" /\ outcome.status = "returned") =>
        /\ tries <= max_retries
        /\ Len(log) = 2 * tries + 1
        /\ \A k \in 1..tries :
              /\ log[2 * k - 1] = Call
              /\ log[2 * k] = Sleep(backoff_base * k * 1000)
        /\ log[Len(log)] = Call
        /\ ~serpapi_autocomplete(last_resp).raised
        /\ outcome.values = serpapi_autocomplete(last_resp).values

C1_Witness ==
    /\ pc = "played"
    /\ outcome.status = "returned"
    /\ outcome.values # <<>>
    /\ max_retries = 5
    /\ backoff_base = 10
    /\ Calls(log) = max_retries + 1
    /\ Sleeps(log) = max_retries

(***************************************************************************)
(* expand_queries alone: the computation of total_queries                  *)
(***************************************************************************)
ExpandSeedTexts ==
    { <<"a">>,
      <<"x">>,
      <<"a", " ", "a">>,
      <<"a", " ", " ", "b">>,
      <<" ", "b", " ", "\n", "a", "\n", "\n", "b">>,
      <<"c", "\t", "\n", "c", " ", "x">> }

ExpandPrefixSuffixInputs ==
    { <<FALSE, <<"c">>, <<"d">> >>,
      <<TRUE, <<"c", "\n">>, <<>> >>,
      <<TRUE, <<" ", "\n">>, <<" ", "d", " ">> >>,
      <<TRUE, <<"c", "\n", " ", "c", "\n", "b">>, <<"n", " ", "m", "\n", "a">> >>,
      <<TRUE, <<"a">>, <<"a", "\n", "x">> >> }

InitExpand ==
    /\ SERPAPI_KEY = "key"
    /\ rpm = 60 /\ max_retries = 2 /\ backoff_base = 3
    /\ use_az \in BOOLEAN
    /\ \E ps \in ExpandPrefixSuffixInputs :
          /\ prefixes = IF ps[1] THEN ParseList(ps[2]) ELSE <<>>
          /\ suffixes = IF ps[1] THEN ParseList(ps[3]) ELSE <<>>
    /\ unique_only = TRUE /\ keep_seed_row = TRUE
    /\ \E t \in ExpandSeedTexts : seeds = ParseSeeds(t)
    /\ pc = "expand"
    /\ Rest

\* one term of sum(len(expand_queries(seed)) for seed in seeds)
ExpandNext ==
    /\ pc = "expand"
    /\ seed_i < Len(seeds)
    /\ seed_i' = seed_i + 1
    /\ queries' = expand_queries(seeds[seed_i + 1], use_az, prefixes, suffixes)
    /\ total_queries' = total_queries + Len(queries')
    /\ UNCHANGED <<settings, pc, q_i, tries, log, last_resp, outcome, gap, req_gap, rows,
                   fetched, inserted, done, df, summary>>

NextExpand == ExpandNext

SpecExpand == InitExpand /\ [][NextExpand]_vars

\* the sequence the claim writes down
Stated(seed) ==
    <<seed>>
    \o (IF use_az
        THEN [k \in 1..26 |-> seed \o <<" ", ascii_lowercase[k]>>]
        ELSE <<>>)
    \o [k \in 1..Len(prefixes) |-> prefixes[k] \o <<" ">> \o seed]
    \o [k \in 1..Len(suffixes) |-> seed \o <<" ">> \o suffixes[k]]

\* the elements of xs that no earlier element equals, in order
RECURSIVE FirstOccurrences(_, _)
FirstOccurrences(xs, i) ==
    IF i > Len(xs) THEN <<>>
    ELSE IF \E j \in 1..(i - 1) : xs[j] = xs[i]
         THEN FirstOccurrences(xs, i + 1)
         ELSE <<xs[i]>> \o FirstOccurrences(xs, i + 1)

Blank(s) == \A i \in 1..Len(s) : s[i] \in Whitespace

Trimmed(s) == s # <<>> /\ s[1] \notin Whitespace /\ s[Len(s)] \notin Whitespace

\* C6: for a non-empty trimmed seed, expand_queries returns the order-preserving
\* de-duplication of [seed] ++ a..z variants ++ prefix variants ++ suffix variants:
\* no duplicate, no blank element, the seed first, exactly [seed] with every toggle
\* off and 27 elements with only the A-Z expansion on.
C6_ExpansionIsOrderedDistinct ==
    (pc = "expand" /\ seed_i >= 1) =>
        LET seed == seeds[seed_i]
        IN  /\ Trimmed(seed)
            /\ queries = FirstOccurrences(Stated(seed), 1)
            /\ \A i, j \in 1..Len(queries) : i # j => queries[i] # queries[j]
            /\ \A i \in 1..Len(queries) : ~Blank(queries[i])
            /\ queries[1] = seed
            /\ (~use_az /\ prefixes = <<>> /\ suffixes = <<>>) => queries = <<seed>>
            /\ (use_az /\ prefixes = <<>> /\ suffixes = <<>>) => Len(queries) = 27

C6_Witness ==
    /\ pc = "expand"
    /\ seed_i = 2
    /\ use_az
    /\ prefixes # <<>>
    /\ Len(queries) > 27
    /\ Len(queries) < 1 + 26 + Len(prefixes) + Len(suffixes)

====
